---- MODULE Spec2Model ----
(***************************************************************************)
(* State machine of factors.models.LifeTable: the product dispatcher cf,   *)
(* the undefined-partner generator with its single-slot lookup cache, the  *)
(* present-value routine pv, and the factor pipeline calculate_cashflows / *)
(* calculate_factors with its (intrest, pension_age) cache.                *)
(*                                                                         *)
(* Payments are real numbers in the program.  A payment is modelled by the *)
(* term that determines it (generator, insured, year, lookup table read,   *)
(* exchange factor); a discount exponent is modelled by twice its value.   *)
(***************************************************************************)
EXTENDS Integers, Sequences, FiniteSets, TLC

(* ---------------------------- bounds ---------------------------------- *)

\* settings.LOWAGE, settings.UPAGE, settings.MAXAGE: the lookup table covers
\* the ages LOWAGE..UPAGE-1, the life tables the ages 0..MAXAGE.
LOWAGE == 1
UPAGE == 3
MAXAGE == 5

\* A second interest rate, beside the default one.
OtherRate == 4

\* Calls counted from construction while every call is an undefined partner
\* call, and consecutive identical calculate_factors calls counted.
MaxTracked == 3

\* Bits of precision of the float arithmetic (53 in the build's binary64).
MantissaBits == 6

(* ------------------------ program constants --------------------------- *)

\* "intrest = 3  # default = 3 pct intrest rate!"
DefaultIntrest == 3

\* Python's None, for the fields that hold a number otherwise.
None == -1

\* An exchange factor of 1, in hundredths.
One == 100

MALE == "M"
FEMALE == "F"
Sexes == {MALE, FEMALE}

\* A sex argument outside (MALE, FEMALE).
BadSex == "X"

Rates == {DefaultIntrest, OtherRate}

\* Pension ages passed by callers: at or above the last lookup age.
PensionAges == UPAGE..(UPAGE + 1)

\* The insured persons cf is called for, as (age_insured, sex_insured,
\* pension_age): a man at the youngest lookup age, a woman one year older
\* retiring a year later, a man past the lookup table, and a person whose sex
\* is neither MALE nor FEMALE.
YoungMan == <<LOWAGE, MALE, UPAGE>>
Woman == <<LOWAGE + 1, FEMALE, UPAGE + 1>>
OldMan == <<UPAGE, MALE, UPAGE>>
Nobody == <<LOWAGE, BadSex, UPAGE>>

LookupAges == LOWAGE..(UPAGE - 1)

\* Rows of an lx table (ages 0..MAXAGE): the length of every annuity stream.
NRows == MAXAGE + 1

\* The product identifiers of the factor matrix, in table order.
INSURANCE_IDS == <<"OPLL", "NPLL-B", "NPLL-O", "NPLLRS", "NPLLRU", "NPTL-B", "NPTL-O">>

\* An identifier no rule knows.
UnknownId == "XYZ"

IdsIn == {"OPLL", "NPLL-B", "NPLL-O", "NPLLRS", "NPLLRU", "NPTL-B", "NPTL-O",
          "ay_avg", UnknownId}

UndefinedPartnerIds == {"NPLL-O", "NPLLRS", "NPLLRU"}

(* --------------------------- loaded tables ---------------------------- *)

\* self.hx[sex]['hx'].ix[age], in hundredths: a sample hazard table.
\* None stands for the KeyError of an age outside 0..MAXAGE.
hx(sex, age) ==
    IF age \notin 0..MAXAGE THEN None
    ELSE IF sex = MALE THEN 10 + age ELSE 20 + age

\* self.ukv: absent (get_ukv returned None), or a table keyed by
\* (gender, pension_age, intrest) with exchange factors in hundredths.
UkvKeys == Sexes \X PensionAges \X Rates

UkvAbsent == [present |-> FALSE, keys |-> {}]

\* A table that holds the male keys only.
UkvMale == [present |-> TRUE, keys |-> {k \in UkvKeys : k[1] = MALE}]

UkvTables == {UkvAbsent, UkvMale}

UkvValue(key) == 40 + key[2] + key[3]

(* ------------------------------ values -------------------------------- *)

\* One entry of a 'payments' series: the term that determines its value.
\*   gen     the rule that produced it; "pre" and "post" are the two phases
\*           of the undefined partner pension
\*   age     the insured age the rule was called with
\*   k       the row it stands for: the lookup age of a "pre" entry, the year
\*           offset within the stream otherwise
\*   lookup  the interest of the lookup table a "pre" entry was read from
\*   factor  hx_at_pensionage of a "post" entry, in hundredths
Term(gen, sex, age, pension_age, k, lk, factor) ==
    [gen |-> gen, sex |-> sex, age |-> age, pension_age |-> pension_age,
     k |-> k, lookup |-> lk, factor |-> factor]

\* A cash-flow dict; age and pension_age are None where the dict has no such key.
Record(id, age, pension_age, payments) ==
    [insurance_id |-> id, age |-> age, pension_age |-> pension_age, payments |-> payments]

NoRecord == Record("", None, None, <<>>)

NoLookup == [built |-> FALSE, intrest |-> None]

NoCurve == [set |-> FALSE, intrest |-> None, len |-> 0]

\* self.cfs / self.factors.  kind "cashflows": the table calculate_cashflows
\* built, with its 'cf' column; kind "factors": a table whose 'cf' column was
\* replaced by 'tar'.  intrest, pension_age: the arguments the cash flows were
\* generated with; lookups: the interests of the lookup tables its undefined
\* partner rows were read from; pv_intrest: the interest 'tar' was discounted at.
Table(kind, intrest, pension_age, lookups, pv_intrest) ==
    [kind |-> kind, intrest |-> intrest, pension_age |-> pension_age,
     lookups |-> lookups, pv_intrest |-> pv_intrest]

NoTable == Table("None", None, None, {}, None)

\* x_to_series(intrest, n): a flat rate broadcast to n years.
x_to_series(intrest, n) == [set |-> TRUE, intrest |-> intrest, len |-> n]

\* What a call hands back: whether it returned, the value it returned, the
\* LifeTable afterwards, and what it did on the way: create_lookup_table calls,
\* interests of the lookup tables read, cash-flow rules invoked.
Outcome(ok, r, slf, builds, reads, calls) ==
    [ok |-> ok, rec |-> r, self |-> slf, builds |-> builds, reads |-> reads,
     calls |-> calls]

(* ------------------- life tables and adjustments ---------------------- *)

\* self.lx[sex]['lx']: survivors by age, for the ages 0..MAXAGE.  Sample tables:
\* survivors falling by one a year, falling once at UPAGE, falling once at
\* the first age, constant, and (no life table) rising with age.
Linear == [a \in 0..MAXAGE |-> MAXAGE + 1 - a]

StepAtUpage == [a \in 0..MAXAGE |-> IF a < UPAGE THEN MAXAGE ELSE 1]

EarlyDrop == [a \in 0..MAXAGE |-> IF a = 0 THEN MAXAGE + 1 ELSE LOWAGE + 1]

Flat == [a \in 0..MAXAGE |-> MAXAGE]

Rising == [a \in 0..MAXAGE |-> a + 1]

LxTables == {Linear, StepAtUpage, EarlyDrop, Flat, Rising}

NonIncreasing(tbl) == \A a \in 0..(MAXAGE - 1) : tbl[a + 1] <= tbl[a]

Positive(tbl) == \A a \in 0..MAXAGE : tbl[a] > 0

\* Exact values of the floating-point quotients: num / den with den > 0, in
\* lowest terms.
RECURSIVE GCD(_, _)
GCD(a, b) == IF b = 0 THEN a ELSE GCD(b, a % b)

Frac(n, d) ==
    LET g == GCD(IF n < 0 THEN -n ELSE n, d)
    IN [num |-> n \div g, den |-> d \div g]

Zero == Frac(0, 1)

Unit == Frac(1, 1)

Times(x, y) == Frac(x.num * y.num, x.den * y.den)

\* The float arithmetic of the payments, at MantissaBits bits of precision:
\* a float is m * 2^e with |m| < 2^MantissaBits, kept with m odd (or 0 * 2^0),
\* and every operation returns the exact result rounded to the nearest float,
\* ties to the even mantissa.
RECURSIVE Pow2(_)
Pow2(k) == IF k = 0 THEN 1 ELSE 2 * Pow2(k - 1)

Float(m, e) == [m |-> m, e |-> e]

RECURSIVE Normal(_, _)
Normal(m, e) ==
    IF m = 0 THEN Float(0, 0)
    ELSE IF m % 2 = 0 THEN Normal(m \div 2, e + 1) ELSE Float(m, e)

FloatZero == Float(0, 0)

FloatOne == Float(1, 0)

\* n / d rounded to the nearest integer, ties to even; n >= 0, d > 0.
RoundHalfEven(n, d) ==
    LET q == n \div d
        r == n % d
    IN IF 2 * r > d \/ (2 * r = d /\ q % 2 = 1) THEN q + 1 ELSE q

\* The bits a non-negative integer has beyond MantissaBits.
RECURSIVE Excess(_)
Excess(n) == IF n < Pow2(MantissaBits) THEN 0 ELSE 1 + Excess(n \div 2)

\* The float nearest to m * 2^e.
RoundDyadic(m, e) ==
    LET a == IF m < 0 THEN -m ELSE m
        s == Excess(a)
        r == RoundHalfEven(a, Pow2(s))
    IN Normal(IF m < 0 THEN -r ELSE r, e + s)

\* The least k >= 0 with a * 2^k >= b * 2^(MantissaBits - 1); a, b > 0.
RECURSIVE Scale(_, _)
Scale(a, b) == IF a >= b * Pow2(MantissaBits - 1) THEN 0 ELSE 1 + Scale(2 * a, b)

\* float(a) / b for integers a >= 0, b > 0 with a / b < 2^MantissaBits.
FloatDiv(a, b) ==
    IF a = 0 THEN FloatZero
    ELSE LET k == Scale(a, b)
         IN Normal(RoundHalfEven(a * Pow2(k), b), -k)

FloatMul(x, y) == RoundDyadic(x.m * y.m, x.e + y.e)

FloatAdd(x, y) ==
    LET e == IF x.e < y.e THEN x.e ELSE y.e
    IN RoundDyadic(x.m * Pow2(x.e - e) + y.m * Pow2(y.e - e), e)

FloatSub(x, y) == FloatAdd(x, Float(-y.m, y.e))

\* A series that could not be computed: an exception left the rule.
NoSeries == <<>>

\* self.adjust[sex]['partner']: age offsets and factors of the partner pension.
AdjustRow(cx1, cx2, cx3, fnett, fcorr, fOTS) ==
    [CX1 |-> cx1, CX2 |-> cx2, CX3 |-> cx3, fnett |-> fnett, fcorr |-> fcorr,
     fOTS |-> fOTS]

Offsets == {-1, 0, 1}

AdjustRows ==
    {AdjustRow(cx1, cx2, cx3, f[1], f[2], f[3]) :
        cx1 \in Offsets, cx2 \in Offsets, cx3 \in {-1, 0},
        f \in {<<FloatOne, FloatOne, FloatOne>>,
                <<Float(1, -1), Float(3, -1), FloatOne>>}}

PlainRow == AdjustRow(0, 0, 0, FloatOne, FloatOne, FloatOne)

npx_FutureUnclamped(tables, age, sex, nyears) ==
    IF sex \notin Sexes \/ age + nyears > MAXAGE \/ age + nyears < 0 \/ age < 0
    THEN [ok |-> FALSE, value |-> Zero]
    ELSE [ok |-> TRUE,
          value |-> Frac(tables[sex][age + nyears],
                         tables[sex][IF age <= MAXAGE THEN age ELSE MAXAGE])]

\* Lines 74-86: npx.  Both ages are clamped to MAXAGE; self.lx[sex] raises for
\* a sex that is no key, .ix[age] for an age below the table.
npx(tables, age, sex, nyears) ==
    LET future_age  == IF age + nyears <= MAXAGE THEN age + nyears ELSE MAXAGE
        current_age == IF age <= MAXAGE THEN age ELSE MAXAGE
    IN IF sex \notin Sexes \/ future_age < 0 \/ current_age < 0
       THEN [ok |-> FALSE, value |-> Zero]
       ELSE [ok |-> TRUE,
             value |-> Frac(tables[sex][future_age], tables[sex][current_age])]

\* Lines 110-124: cf_annuity for an age the table holds and 0 <= defer < nrows.
\* Year y pays lx[age + y] / lx[age] from the deferral on; the years the
\* shifted table does not reach are filled with 0.
cf_annuity(age, tbl, defer) ==
    [n \in 1..NRows |->
        IF n - 1 < defer \/ age + n - 1 > MAXAGE
        THEN FloatZero
        ELSE FloatDiv(tbl[age + n - 1], tbl[age])]

\* Lines 252-253.
temp1(tbl_insured, age_insured, pension_age, alpha1) ==
    FloatDiv(tbl_insured[pension_age + alpha1], tbl_insured[age_insured + alpha1])

\* Lines 254-255.
temp2(tbl_insured, age_insured, pension_age, alpha2) ==
    FloatDiv(tbl_insured[age_insured + alpha2], tbl_insured[pension_age + alpha2])

\* The ages cf_defined_partner looks up with .ix (lines 241-255).
Anchors(adj, prm, age_insured, sex_insured, pension_age) ==
    LET sex_beneficiary == IF sex_insured = MALE THEN FEMALE ELSE MALE
        sign == IF sex_insured = MALE THEN 1 ELSE -1
    IN {age_insured - sign * prm.delta + adj[sex_beneficiary].CX3,
        age_insured + adj[sex_insured].CX1, age_insured + adj[sex_insured].CX2,
        pension_age + adj[sex_insured].CX1, pension_age + adj[sex_insured].CX2}

\* Lines 229-258: the payments of cf_defined_partner, for
\* age_insured <= pension_age.  No series when the assertion of line 229 or
\* of line 120 fails or a table lookup raises KeyError.
cf_defined_partner(tables, adj, prm, age_insured, sex_insured, pension_age) ==
    IF sex_insured \notin Sexes THEN NoSeries
    ELSE IF ~(Anchors(adj, prm, age_insured, sex_insured, pension_age) \subseteq 0..MAXAGE)
    THEN NoSeries
    ELSE IF ~(NRows > pension_age - age_insured) THEN NoSeries
    ELSE
      LET sex_beneficiary == IF sex_insured = MALE THEN FEMALE ELSE MALE
          tbl_insured     == tables[sex_insured]
          tbl_beneficiary == tables[sex_beneficiary]
          row    == adj[sex_insured]
          alpha1 == row.CX1
          alpha2 == row.CX2
          gamma3 == adj[sex_beneficiary].CX3
          sign   == IF sex_insured = MALE THEN 1 ELSE -1
          defer  == pension_age - age_insured
          anchor == age_insured - sign * prm.delta + gamma3
          ay  == cf_annuity(anchor, tbl_beneficiary, 0)
          ax  == cf_annuity(age_insured + alpha1, tbl_insured, 0)
          f1a == cf_annuity(age_insured + alpha1, tbl_insured, defer)
          f1b == cf_annuity(anchor, tbl_beneficiary, defer)
          f2a == cf_annuity(age_insured + alpha2, tbl_insured, defer)
          t1  == temp1(tbl_insured, age_insured, pension_age, alpha1)
          t2  == temp2(tbl_insured, age_insured, pension_age, alpha2)
          fac == FloatMul(FloatMul(row.fnett, row.fcorr), row.fOTS)
      IN [n \in 1..NRows |->
            LET axy == FloatMul(ax[n], ay[n])
                f1  == FloatMul(f1a[n], f1b[n])
                f2  == FloatMul(FloatMul(FloatMul(f2a[n], f1b[n]), t1), t2)
            IN FloatMul(fac, FloatAdd(FloatSub(ay[n], axy), FloatSub(f1, f2)))]

(* ------------------------------ variables ----------------------------- *)

VARIABLES
    self,     \* the LifeTable's mutable fields (models.py 22-27)
    ukv,      \* self.ukv, loaded once
    rec,      \* the caller's variable holding the record cf returned last
    call,     \* the last call made and its arguments
    result,   \* what the last call did and returned
    old,      \* the LifeTable's mutable fields before the last call
    history,  \* what is remembered of the calls before the last
    lx,       \* self.lx, loaded once: sex -> age -> survivors
    adjust,   \* self.adjust, loaded once: sex -> the 'partner' adjustments
    params,   \* self.params, loaded once
    args      \* the arguments the caller holds for a call of npx or cf_defined_partner

vars == <<self, ukv, rec, call, result, old, history, lx, adjust, params, args>>

(* --------------------------- cash-flow rules -------------------------- *)

\* The streams of the rules that read no cache: NRows entries each.
PlainPayments(gen, age, sex, pension_age) ==
    [y \in 1..NRows |-> Term(gen, sex, age, pension_age, y - 1, None, None)]

\* cf_retirement_pension, cf_defined_partner, cf_ay_avg, cf_defined_one_year_risk,
\* cf_undefined_one_year_risk: no field of self is assigned; a sex outside
\* (MALE, FEMALE) fails the assertion or the table access.
cf_plain(gen, slf, age, sex, pension_age) ==
    IF sex \notin Sexes
    THEN Outcome(FALSE, NoRecord, slf, 0, {}, 1)
    ELSE Outcome(TRUE, Record("", None, None, PlainPayments(gen, age, sex, pension_age)),
                 slf, 0, {}, 1)

\* Lines 280-285: the interest the undefined partner rule works with.
EffectiveIntrest(intrest_kw) == IF intrest_kw = None THEN DefaultIntrest ELSE intrest_kw

HxAtPensionAge_UkvRaises(hx_pd, sex, pension_age, intrest_kw, tbl) ==
    IF hx_pd \in {"None", "one"} THEN One
    ELSE IF hx_pd = "ukv"
         THEN IF tbl.present /\ intrest_kw # None /\ <<sex, pension_age, intrest_kw>> \in tbl.keys
              THEN UkvValue(<<sex, pension_age, intrest_kw>>)
              ELSE None
         ELSE hx(sex, pension_age)

\* Lines 287-299: hx_at_pensionage.  intrest_kw is kwargs['intrest'], None when
\* the keyword was not passed (the subscript raises, the except clause gives 1).
HxAtPensionAge(hx_pd, sex, pension_age, intrest_kw, tbl) ==
    IF hx_pd \in {"None", "one"} THEN One
    ELSE IF hx_pd = "ukv"
         THEN IF tbl.present /\ intrest_kw # None /\ <<sex, pension_age, intrest_kw>> \in tbl.keys
              THEN UkvValue(<<sex, pension_age, intrest_kw>>)
              ELSE One
         ELSE hx(sex, pension_age)

NeedRebuild_OnlyWhenAbsent(intrest, slf) == ~slf.lookup.built

\* Line 305, negated: the cached interest is not the requested one.
NeedRebuild(intrest, slf) == intrest # slf.intrest

Rebuild_ForgetsIntrest(intrest, slf) ==
    [slf EXCEPT !.lookup = [built |-> TRUE, intrest |-> intrest],
                !.yield_curve = x_to_series(intrest, NRows)]

\* create_lookup_table(intrest) and lines 309-310.  Each row's ay_avg calls pv,
\* which leaves the flat curve of its NRows-long stream in self.yield_curve.
Rebuild(intrest, slf) ==
    [slf EXCEPT !.lookup = [built |-> TRUE, intrest |-> intrest],
                !.intrest = intrest,
                !.yield_curve = x_to_series(intrest, NRows)]

\* Lines 312-313: the rows age_insured..pension_age-1 the lookup table holds.
PreAges(age, pension_age) == {x \in LookupAges : age <= x /\ x <= pension_age - 1}

RECURSIVE AscendingSeq(_)
AscendingSeq(S) ==
    IF S = {} THEN <<>>
    ELSE LET m == CHOOSE x \in S : \A z \in S : x <= z
         IN <<m>> \o AscendingSeq(S \ {m})

\* Lines 312-336: the two phases, appended and re-indexed from year 0.
UndefinedPartnerPayments(age, sex, pension_age, lk, factor) ==
    LET pre == AscendingSeq(PreAges(age, pension_age))
    IN [n \in 1..Len(pre) |-> Term("pre", sex, age, None, pre[n], lk, None)]
       \o [y \in 1..NRows |-> Term("post", sex, age, pension_age, y - 1, None, factor)]

\* cf_undefined_partner(age, sex, pension_age, hx_pd=..., [intrest=...]).
cf_undefined_partner(hx_pd, slf, age, sex, pension_age, intrest_kw) ==
    IF sex \notin Sexes
    THEN Outcome(FALSE, NoRecord, slf, 0, {}, 1)                    \* line 278
    ELSE
      LET intrest == EffectiveIntrest(intrest_kw)
          factor  == HxAtPensionAge(hx_pd, sex, pension_age, intrest_kw, ukv)
          miss    == NeedRebuild(intrest, slf)
          after   == IF miss THEN Rebuild(intrest, slf) ELSE slf
          lk      == after.lookup
          builds  == IF miss THEN 1 ELSE 0
      IN IF factor = None
         THEN Outcome(FALSE, NoRecord, slf, 0, {}, 1)               \* line 299
         ELSE IF ~lk.built
         THEN Outcome(FALSE, NoRecord, after, builds, {}, 1)        \* line 312 on None
         ELSE IF age \notin LookupAges
         THEN Outcome(FALSE, NoRecord, after, builds, {lk.intrest}, 1)   \* line 325
         ELSE Outcome(TRUE,
                      Record("", age, pension_age,
                             UndefinedPartnerPayments(age, sex, pension_age,
                                                      lk.intrest, factor)),
                      after, builds, {lk.intrest}, 1)

(* ------------------------------ dispatch ------------------------------ *)

Rule(gen, hx_pd) == [call |-> gen, hx_pd |-> hx_pd]

\* switcher[insurance_id] raised KeyError.
NoRule == Rule("", "None")

\* Lines 391-399.
switcher(id) ==
    CASE id = "OPLL"   -> Rule("cf_retirement_pension", "None")
      [] id = "NPLL-B" -> Rule("cf_defined_partner", "None")
      [] id = "NPLL-O" -> Rule("cf_undefined_partner", "non-exchangable")
      [] id = "NPLLRS" -> Rule("cf_undefined_partner", "one")
      [] id = "NPLLRU" -> Rule("cf_undefined_partner", "ukv")
      [] id = "NPTL-B" -> Rule("cf_defined_one_year_risk", "None")
      [] id = "NPTL-O" -> Rule("cf_undefined_one_year_risk", "None")
      [] id = "ay_avg" -> Rule("cf_ay_avg", "None")
      [] OTHER         -> NoRule

Dispatch_FallsBack(id) ==
    IF switcher(id) = NoRule THEN switcher("NPLLRS") ELSE switcher(id)

\* The subscript switcher[insurance_id] of line 402.
Dispatch(id) == switcher(id)

\* cf(insurance_id, age_insured, sex_insured, pension_age, [intrest=...]).
\* intrest_kw is None when the keyword is not passed.
cf(slf, id, age, sex, pension_age, intrest_kw) ==
    LET rule == Dispatch(id)
        got  == IF rule.call = "cf_undefined_partner"
                THEN cf_undefined_partner(rule.hx_pd, slf, age, sex, pension_age, intrest_kw)
                ELSE cf_plain(rule.call, slf, age, sex, pension_age)
    IN IF rule = NoRule
       THEN Outcome(FALSE, NoRecord, slf, 0, {}, 0)
       ELSE IF got.ok
       THEN [got EXCEPT !.rec.insurance_id = id]                  \* line 401
       ELSE got

(* --------------------------- present value ---------------------------- *)

PvRule_DefaultsToWhole(id) ==
    CASE id \in {"NPTL-B", "NPTL-O"} -> "half"
      [] id \in {"NPLL-O", "NPLLRS", "NPLLRU"} -> "mixed"
      [] OTHER -> "whole"

\* Lines 422-431: the discounting convention of a product; "none" is the
\* else branch, which binds no pv_factors.
PvRule(id) ==
    CASE id \in {"OPLL", "NPLL-B", "ay_avg"} -> "whole"
      [] id \in {"NPTL-B", "NPTL-O"} -> "half"
      [] id \in {"NPLL-O", "NPLLRS", "NPLLRU"} -> "mixed"
      [] OTHER -> "none"

\* Line 428: whether year (from 0) gets the half-year added.
HalfYear(year, r) == year <= r.pension_age - r.age

\* Twice the exponent pv raises the discount factor of year (from 0) to;
\* rule is one of "whole", "half", "mixed".
Exponent2(rule, year, r) ==
    CASE rule = "whole" -> 2 * year
      [] rule = "half"  -> 2 * year + 1
      [] OTHER          -> 2 * year + (IF HalfYear(year, r) THEN 1 ELSE 0)

PvWrites_AlsoIntrest(slf, intrest, n) ==
    [slf EXCEPT !.yield_curve = x_to_series(intrest, n), !.intrest = intrest]

\* Line 420.
PvWrites(slf, intrest, n) == [slf EXCEPT !.yield_curve = x_to_series(intrest, n)]

NoValue == [payments |-> <<>>, exps |-> <<>>, intrest |-> None]

\* pv(cf, intrest).  value stands for round(sum(cfs * pv_factors), rounding):
\* the payments, twice the exponent of each, and the rate.
pv(slf, r, intrest) ==
    LET n     == Len(r.payments)
        after == PvWrites(slf, intrest, n)
        rule  == PvRule(r.insurance_id)
    IN IF rule = "none"                                           \* line 433
       THEN [ok |-> FALSE, value |-> NoValue, self |-> after]
       ELSE IF rule = "mixed" /\ (r.age = None \/ r.pension_age = None)
       THEN [ok |-> FALSE, value |-> NoValue, self |-> after]     \* line 427
       ELSE [ok |-> TRUE,
             value |-> [payments |-> r.payments,
                        exps |-> [y \in 1..n |-> Exponent2(rule, y - 1, r)],
                        intrest |-> intrest],
             self |-> after]

(* --------------------------- factor pipeline -------------------------- *)

NLookupAges == UPAGE - LOWAGE

\* Line 495: row n (from 0) of cartesian([INSURANCE_IDS, [MALE, FEMALE],
\* range(LOWAGE, UPAGE)]), the last list varying fastest.
RowCount == Len(INSURANCE_IDS) * 2 * NLookupAges

RowAt(n) ==
    [insurance_id |-> INSURANCE_IDS[(n \div (2 * NLookupAges)) + 1],
     sex_insured  |-> IF (n \div NLookupAges) % 2 = 0 THEN MALE ELSE FEMALE,
     age_insured  |-> LOWAGE + (n % NLookupAges)]

\* Line 505: df.apply(map_to_cf, axis=1) from row n on.  acc is the Outcome of
\* the rows before; the first row that raises ends the call.
\* What the rows so far did, after one more row did `got`.
AfterRow(acc, got) ==
    Outcome(got.ok, NoRecord, got.self, acc.builds + got.builds,
            acc.reads \cup got.reads, acc.calls + got.calls)

\* The one element of a singleton set.
The(S) == CHOOSE x \in S : TRUE

RECURSIVE map_to_cf(_, _, _, _)
map_to_cf(n, acc, pension_age, intrest) ==
    IF n = RowCount \/ ~acc.ok THEN acc
    ELSE The({map_to_cf(n + 1, next, pension_age, intrest) :
                next \in {AfterRow(acc, got) :
                            got \in {cf(acc.self, RowAt(n).insurance_id,
                                        RowAt(n).age_insured, RowAt(n).sex_insured,
                                        pension_age, intrest)}}})

\* calculate_cashflows(pension_age, intrest).
calculate_cashflows(slf, pension_age, intrest) ==
    The({IF ~rows.ok THEN rows
         ELSE [rows EXCEPT !.self =
                  [rows.self EXCEPT !.intrest = intrest,                   \* 506
                                    !.pension_age = pension_age,           \* 507
                                    !.cfs = Table("cashflows", intrest, pension_age,
                                                  rows.reads, None)]]      \* 508
         : rows \in {map_to_cf(0, Outcome(TRUE, NoRecord, slf, 0, {}, 0),
                               pension_age, intrest)}})

\* Line 519.
CacheHit(intrest, pension_age, slf) ==
    intrest = slf.intrest /\ pension_age = slf.pension_age

\* Lines 524-527 on the frame `factors`: every row's 'cf' is discounted at
\* intrest, the column 'cf' is dropped.  The rows' pv calls leave the curve of
\* the last row (an NRows-long stream) in self.yield_curve.
Tar(frame, intrest) == [frame EXCEPT !.kind = "factors", !.pv_intrest = intrest]

FactorsResult(ok, matrix, slf, hit, builds, calls) ==
    [ok |-> ok, matrix |-> matrix, self |-> slf, hit |-> hit, builds |-> builds,
     calls |-> calls]

\* calculate_factors(intrest, pension_age).
calculate_factors(slf, intrest, pension_age) ==
    IF CacheHit(intrest, pension_age, slf)
    THEN \* factors = self.cfs: lines 524-526 change self.cfs itself
         IF slf.cfs.kind = "cashflows"
         THEN LET factors == Tar(slf.cfs, intrest)
                  after   == [PvWrites(slf, intrest, NRows) EXCEPT
                                 !.cfs = factors, !.factors = factors]
              IN FactorsResult(TRUE, factors, after, TRUE, 0, 0)
         ELSE \* no frame, or a frame without the column 'cf': line 524 raises
              FactorsResult(FALSE, NoTable, slf, TRUE, 0, 0)
    ELSE The({IF ~cc.ok
              THEN FactorsResult(FALSE, NoTable, cc.self, FALSE, cc.builds, cc.calls)
              ELSE LET factors == Tar(cc.self.cfs, intrest)     \* of the deep copy
                       after   == [PvWrites(cc.self, intrest, NRows) EXCEPT
                                      !.factors = factors]
                   IN FactorsResult(TRUE, factors, after, FALSE, cc.builds, cc.calls)
              : cc \in {calculate_cashflows(slf, pension_age, intrest)}})

(* ------------------------------ the calls ----------------------------- *)

\* Lines 22-27.
NewLifeTable ==
    [pension_age |-> None, intrest |-> None, lookup |-> NoLookup, cfs |-> NoTable,
     factors |-> NoTable, yield_curve |-> NoCurve]

Call(op, id, age, sex, pension_age, intrest) ==
    [op |-> op, insurance_id |-> id, age |-> age, sex |-> sex,
     pension_age |-> pension_age, intrest |-> intrest]

NoCall == Call("", "", None, "", None, None)

Result(ok, builds, reads, calls, hit, value, matrix) ==
    [ok |-> ok, builds |-> builds, reads |-> reads, calls |-> calls, hit |-> hit,
     value |-> value, matrix |-> matrix]

NoResult == Result(FALSE, 0, {}, 0, FALSE, NoValue, NoTable)

\* What is remembered of the calls made since construction:
\*   up_only      every call so far was an undefined partner cf call that got
\*                past its assertion, and there were at most MaxTracked; then
\*     n            how many they were
\*     builds       how many create_lookup_table invocations they made
\*     seen         the interests they worked with
\*     alternating  each worked with another interest than the one before
\*     prev         the interest the last one worked with
\*   streak       how many calculate_factors calls with the last call's
\*                arguments end the sequence (counted up to MaxTracked);
\*                first, first_ok: what the first of these returned
Tracking(up_only, n, builds, seen, alternating, prev) ==
    [up_only |-> up_only, n |-> n, builds |-> builds, seen |-> seen,
     alternating |-> alternating, prev |-> prev]

Untracked == Tracking(FALSE, 0, 0, {}, FALSE, None)

NoStreak == [streak |-> 0, first |-> NoTable, first_ok |-> FALSE]

NoHistory == [up |-> Tracking(TRUE, 0, 0, {}, TRUE, None), factors |-> NoStreak]

InitWith(tables) ==
    /\ self = NewLifeTable
    /\ ukv \in tables
    /\ rec = NoRecord
    /\ call = NoCall
    /\ result = NoResult
    /\ old = NewLifeTable
    /\ history = NoHistory
    /\ lx = [s \in Sexes |-> Linear]
    /\ adjust = [s \in Sexes |-> PlainRow]
    /\ params = [delta |-> 1]
    /\ args = NoCall

\* history.up after an undefined partner call that worked with intrest and
\* made `builds` create_lookup_table invocations.
TrackedCall(up, intrest, builds) ==
    IF ~up.up_only \/ up.n = MaxTracked THEN Untracked
    ELSE Tracking(TRUE, up.n + 1, up.builds + builds, up.seen \cup {intrest},
                  up.alternating /\ intrest # up.prev, intrest)

\* The caller calls cf and keeps the record it returns.
Cf(ids, insured, intrests) ==
    \E id \in ids, who \in insured, intrest_kw \in intrests :
      \E got \in {cf(self, id, who[1], who[2], who[3], intrest_kw)} :
        LET age         == who[1]
            sex         == who[2]
            pension_age == who[3]
            reached == id \in UndefinedPartnerIds /\ sex \in Sexes
        IN /\ self' = got.self
           /\ rec' = IF got.ok THEN got.rec ELSE NoRecord
           /\ call' = Call("cf", id, age, sex, pension_age, intrest_kw)
           /\ result' = Result(got.ok, got.builds, got.reads, got.calls, FALSE,
                               NoValue, NoTable)
           /\ old' = self
           /\ history' = [up |-> IF reached
                                 THEN TrackedCall(history.up, EffectiveIntrest(intrest_kw),
                                                  got.builds)
                                 ELSE Untracked,
                          factors |-> NoStreak]
           /\ UNCHANGED <<ukv, lx, adjust, params, args>>

\* The caller hands the record cf just returned to pv (lines 477-482), as it
\* is or under another 'insurance_id' (line 163 builds such a dict by hand).
Pv(ids, intrests) ==
    \E id \in ids \cup {rec.insurance_id}, intrest \in intrests :
      \E got \in {pv(self, [rec EXCEPT !.insurance_id = id], intrest)} :
        LET r == [rec EXCEPT !.insurance_id = id]
        IN /\ rec # NoRecord
           /\ self' = got.self
           /\ call' = Call("pv", id, r.age, "", r.pension_age, intrest)
           /\ result' = Result(got.ok, 0, {}, 0, FALSE, got.value, NoTable)
           /\ old' = self
           /\ history' = [up |-> Untracked, factors |-> NoStreak]
           /\ UNCHANGED <<ukv, rec, lx, adjust, params, args>>

\* The caller calls calculate_cashflows.
CalculateCashflows(pension_ages, intrests) ==
    \E pension_age \in pension_ages, intrest \in intrests :
      \E got \in {calculate_cashflows(self, pension_age, intrest)} :
           /\ self' = got.self
           /\ rec' = NoRecord
           /\ call' = Call("calculate_cashflows", "", None, "", pension_age, intrest)
           /\ result' = Result(got.ok, got.builds, got.reads, got.calls, FALSE,
                               NoValue, NoTable)
           /\ old' = self
           /\ history' = [up |-> Untracked, factors |-> NoStreak]
           /\ UNCHANGED <<ukv, lx, adjust, params, args>>

\* The caller calls calculate_factors.
CalculateFactors(intrests, pension_ages) ==
    \E intrest \in intrests, pension_age \in pension_ages :
      \E got \in {calculate_factors(self, intrest, pension_age)} :
        LET repeat == /\ call.op = "calculate_factors"
                      /\ call.intrest = intrest
                      /\ call.pension_age = pension_age
            before == history.factors
        IN /\ self' = got.self
           /\ rec' = NoRecord
           /\ call' = Call("calculate_factors", "", None, "", pension_age, intrest)
           /\ result' = Result(got.ok, got.builds, {}, got.calls, got.hit,
                               NoValue, got.matrix)
           /\ old' = self
           /\ history' = [up |-> Untracked,
                          factors |->
                             IF repeat
                             THEN [before EXCEPT !.streak =
                                      IF @ < MaxTracked THEN @ + 1 ELSE @]
                             ELSE [streak |-> 1, first |-> got.matrix,
                                   first_ok |-> got.ok]]
           /\ UNCHANGED <<ukv, lx, adjust, params, args>>

(* -------------------------- the specifications ------------------------ *)

\* The caches under every interleaving of the calls that write them.  cf is
\* called for undefined partner products, a product without cache and an
\* unknown one, for a man at a lookup age and for one past the lookup table.
CacheIds == {"NPLLRS", "NPLLRU", "OPLL", UnknownId}

Init == InitWith({UkvMale})

CfCache == Cf(CacheIds, {YoungMan, OldMan}, Rates \cup {None})

PvCache == Pv({}, {DefaultIntrest})

CalculateCashflowsCache == CalculateCashflows({UPAGE}, Rates)

CalculateFactorsCache == CalculateFactors(Rates, PensionAges)

Next == CfCache \/ PvCache \/ CalculateCashflowsCache \/ CalculateFactorsCache

Spec == Init /\ [][Next]_vars

\* Every product through cf and pv, for each of the insured persons, on a
\* LifeTable whose factor matrix is computed for one (intrest, pension_age).
CfRecords == Cf(IdsIn, {YoungMan, Woman, OldMan, Nobody}, Rates \cup {None})

PvRecords == Pv({UnknownId, "NPLLRS"}, {OtherRate})

CalculateCashflowsRecords == CalculateCashflows({UPAGE}, {DefaultIntrest})

CalculateFactorsRecords == CalculateFactors({DefaultIntrest}, {UPAGE})

NextRecords ==
    CfRecords \/ PvRecords \/ CalculateCashflowsRecords \/ CalculateFactorsRecords

InitRecords == InitWith(UkvTables)

SpecRecords == InitRecords /\ [][NextRecords]_vars

\* The arithmetic of the life tables: npx and cf_defined_partner on every
\* pair of sample tables and every row of adjustments.  Neither assigns a
\* field of self.
NpxCall(age, sex, nyears) ==
    [op |-> "npx", insurance_id |-> "", age |-> age, sex |-> sex,
     pension_age |-> None, intrest |-> None, nyears |-> nyears]

\* The caller calls npx(age, sex, nyears) with the arguments it holds.
Npx ==
    /\ args.op = "npx" /\ call = NoCall
    /\ \E got \in {npx(lx, args.age, args.sex, args.nyears)} :
        /\ call' = args
        /\ result' = Result(got.ok, 0, {}, 0, FALSE, got.value, NoTable)
        /\ rec' = NoRecord
        /\ old' = self
        /\ history' = [up |-> Untracked, factors |-> NoStreak]
        /\ UNCHANGED <<self, ukv, lx, adjust, params, args>>

\* The caller calls cf_defined_partner(age_insured, sex_insured, pension_age)
\* with the arguments it holds.
CfDefinedPartner ==
    /\ args.op = "cf_defined_partner" /\ call = NoCall
    /\ \E got \in {cf_defined_partner(lx, adjust, params, args.age, args.sex,
                                      args.pension_age)} :
        /\ call' = args
        /\ result' = Result(got # NoSeries, 0, {}, 0, FALSE,
                            [NoValue EXCEPT !.payments = got], NoTable)
        /\ rec' = NoRecord
        /\ old' = self
        /\ history' = [up |-> Untracked, factors |-> NoStreak]
        /\ UNCHANGED <<self, ukv, lx, adjust, params, args>>

\* Arguments of npx: ages up to two above MAXAGE, either sex or none, up to
\* UPAGE years.
NpxArgs ==
    {NpxCall(age, sex, nyears) :
        age \in 0..(MAXAGE + 2), sex \in Sexes \cup {BadSex}, nyears \in 0..UPAGE}

\* Arguments of cf_defined_partner with age_insured <= pension_age.
DefinedPartnerArgs ==
    {Call("cf_defined_partner", "", who[1], sex, who[2], None) :
        who \in {w \in (0..MAXAGE) \X (0..MAXAGE) : w[1] <= w[2]},
        sex \in Sexes \cup {BadSex}}

InitTables ==
    /\ self = NewLifeTable
    /\ ukv = UkvAbsent
    /\ rec = NoRecord
    /\ call = NoCall
    /\ result = NoResult
    /\ old = NewLifeTable
    /\ history = NoHistory
    /\ lx \in [Sexes -> LxTables]
    /\ adjust \in {[s \in Sexes |-> row] : row \in AdjustRows}
    /\ params = [delta |-> 1]
    /\ args \in NpxArgs \cup DefinedPartnerArgs

NextTables == Npx \/ CfDefinedPartner

SpecTables == InitTables /\ [][NextTables]_vars

(* ------------------------------- claims ------------------------------- *)

\* The last call was cf for an undefined partner product.
UndefinedPartnerCall == call.op = "cf" /\ call.insurance_id \in UndefinedPartnerIds

\* C1 (as claimed): a calculate_factors(i, p) that returns, returns present
\* values of cash flows generated with exactly interest i and pension age p:
\* the cached table is reused only when it was generated for (i, p), and
\* regenerated whenever i or p differs from what it was generated with.
C1_FactorsOfRequestedInputs ==
    (call.op = "calculate_factors" /\ result.ok) =>
        /\ result.matrix.intrest = call.intrest
        /\ result.matrix.pension_age = call.pension_age
        /\ result.matrix.lookups = {call.intrest}
        /\ result.hit => /\ old.cfs.kind # "None"
                         /\ old.cfs.intrest = call.intrest
                         /\ old.cfs.pension_age = call.pension_age

\* C2 (as claimed): from the second on, every calculate_factors call of a run
\* of identical calls succeeds, returns the first one's matrix, invokes no
\* cash-flow rule, and, being a cache hit, leaves self.cfs as it was.
C2_RepeatedFactorsFromCache ==
    (call.op = "calculate_factors" /\ history.factors.first_ok
       /\ history.factors.streak >= 2) =>
        /\ result.ok
        /\ result.matrix = history.factors.first
        /\ result.calls = 0
        /\ (result.hit => self.cfs = old.cfs)

\* C3: an undefined partner call (one that got past its assertion) rebuilds
\* the lookup table exactly when the requested interest is not the one the
\* held table was built for, reuses the held table otherwise, and reads a
\* table built for the requested interest; so do the undefined partner rows
\* of calculate_cashflows.
C3_LookupRebuiltIffInterestDiffers ==
    /\ (UndefinedPartnerCall /\ call.sex \in Sexes) =>
          LET intrest == EffectiveIntrest(call.intrest)
              stale   == ~old.lookup.built \/ old.lookup.intrest # intrest
          IN /\ result.builds = (IF stale THEN 1 ELSE 0)
             /\ (~stale => self.lookup = old.lookup)
             /\ result.reads = {intrest}
             /\ self.lookup = [built |-> TRUE, intrest |-> intrest]
    /\ (call.op = "calculate_cashflows" /\ result.ok) =>
          /\ result.reads = {call.intrest}
          /\ result.builds = (IF old.lookup.built /\ old.lookup.intrest = call.intrest
                              THEN 0 ELSE 1)

\* C3 witness: a table that calculate_cashflows left behind is reused by a
\* later undefined partner call for the same interest.
C3_Witness ==
    /\ UndefinedPartnerCall /\ result.ok /\ result.builds = 0
    /\ old.cfs.kind = "cashflows"
    /\ old.lookup.intrest = EffectiveIntrest(call.intrest)

\* The calls since construction were undefined partner calls whose interest
\* alternated between at most two rates.
Alternating ==
    /\ history.up.up_only /\ history.up.alternating
    /\ history.up.n >= 1 /\ Cardinality(history.up.seen) <= 2

\* C4 (as claimed): across such calls the lookup table is built exactly once
\* per distinct interest rate.
C4_OneRebuildPerRate == Alternating => history.up.builds = Cardinality(history.up.seen)

\* C4 (amended): across such calls the lookup table is built by every call,
\* once per alternation: N calls build it N times.
C4_OneRebuildPerCall == Alternating => history.up.builds = history.up.n

\* C4 witness: three alternating calls over two rates.
C4_Witness == Alternating /\ history.up.n >= 3 /\ Cardinality(history.up.seen) = 2

\* What the last cf call would have done with intrest=3 passed explicitly.
WithDefaultPassed ==
    cf(old, call.insurance_id, call.age, call.sex, call.pension_age, DefaultIntrest)

\* C5 (as claimed): an undefined partner cf call without the intrest keyword
\* does not fail for want of it, returns the record and leaves the lookup
\* table and cached interest that the call with intrest=3 does.
C5_NoInterestMeansThree ==
    (UndefinedPartnerCall /\ call.intrest = None) =>
        /\ result.ok = WithDefaultPassed.ok
        /\ (result.ok => rec = WithDefaultPassed.rec)
        /\ self.lookup = WithDefaultPassed.self.lookup
        /\ self.intrest = WithDefaultPassed.self.intrest
        /\ self.intrest = DefaultIntrest

\* C6: cf with an identifier outside the eight known ones fails, returns no
\* record, invokes no rule and leaves every mutable field as it was.
C6_UnknownProductFails ==
    (call.op = "cf" /\ call.insurance_id \notin
        {"OPLL", "NPLL-B", "NPLL-O", "NPLLRS", "NPLLRU", "NPTL-B", "NPTL-O", "ay_avg"}) =>
        /\ ~result.ok
        /\ rec = NoRecord
        /\ result.calls = 0 /\ result.builds = 0
        /\ self = old

\* C6 witness: an unknown identifier asked of a LifeTable with both caches filled.
C6_Witness ==
    /\ call.op = "cf" /\ call.insurance_id = UnknownId
    /\ old.lookup.built /\ old.cfs.kind # "None" /\ old.factors.kind # "None"

\* The exchange factors of the post-retirement entries of the record held.
PostFactors == {rec.payments[y].factor : y \in {z \in DOMAIN rec.payments :
                                                    rec.payments[z].gen = "post"}}

\* The exchange-table lookup of the last call finds an entry.
UkvFound ==
    /\ ukv.present /\ call.intrest # None
    /\ <<call.sex, call.pension_age, call.intrest>> \in ukv.keys

C8_UnknownConventionFails ==
    (call.op = "pv" /\ call.insurance_id \notin
        {"OPLL", "NPLL-B", "ay_avg", "NPTL-B", "NPTL-O", "NPLL-O", "NPLLRS", "NPLLRU"}) =>
        ~result.ok /\ result.value = NoValue

\* C8 witness: pv was handed a record tagged with an unknown identifier.
C8_Witness == call.op = "pv" /\ call.insurance_id = UnknownId /\ rec # NoRecord

\* The last call was cf for a product that reads no cache.
PlainCall ==
    call.op = "cf" /\ call.insurance_id \in {"OPLL", "NPLL-B", "NPTL-B", "NPTL-O", "ay_avg"}

\* C9 (as claimed): after pv, and after cf for OPLL, NPLL-B, NPTL-B, NPTL-O or
\* ay_avg, every mutable field has the value it had before the call.
C9_PvAndPlainRulesPure == (call.op = "pv" \/ PlainCall) => self = old

\* C9 (amended): cf for these products leaves every mutable field as it was,
\* whether it succeeds or fails; pv leaves intrest, pension_age, lookup, cfs
\* and factors as they were and assigns yield_curve the rate broadcast to the
\* record's length, also when it fails.
C9_PvWritesYieldCurveOnly ==
    /\ PlainCall => self = old
    /\ (call.op = "pv") =>
          /\ [self EXCEPT !.yield_curve = old.yield_curve] = old
          /\ self.yield_curve = x_to_series(call.intrest, Len(rec.payments))

\* C9 witness: a failing pv changed yield_curve on a LifeTable with caches filled.
C9_Witness ==
    /\ call.op = "pv" /\ ~result.ok
    /\ self.yield_curve # old.yield_curve
    /\ old.lookup.built /\ old.cfs.kind # "None"

\* C10 (as claimed): for an undefined partner record of cf, pv raises the
\* discount factor of year y to y + 0.5 exactly when y < pension_age - age,
\* and to y from year pension_age - age on.
C10_HalfYearBeforeRetirementOnly ==
    (call.op = "pv" /\ result.ok /\ rec.insurance_id \in UndefinedPartnerIds
       /\ call.insurance_id = rec.insurance_id) =>
        \A y \in 0..(Len(rec.payments) - 1) :
            result.value.exps[y + 1] =
                IF y < rec.pension_age - rec.age THEN 2 * y + 1 ELSE 2 * y

\* C11 (as claimed): every record an undefined partner rule returns holds
\* (pension_age - age) + (length of the post-retirement stream) payments; the
\* entries 0..pension_age-age-1 are the contributions of the insured ages
\* age..pension_age-1 in order, and entry (pension_age - age) + k is the k-th
\* post-retirement payment.
C11_PhaseBoundaryAtPensionAge ==
    (call.op = "cf" /\ result.ok /\ call.insurance_id \in UndefinedPartnerIds) =>
        LET d == rec.pension_age - rec.age
        IN /\ Len(rec.payments) = d + NRows
           /\ \A y \in 0..(Len(rec.payments) - 1) :
                 IF y < d
                 THEN /\ rec.payments[y + 1].gen = "pre"
                      /\ rec.payments[y + 1].k = rec.age + y
                 ELSE /\ rec.payments[y + 1].gen = "post"
                      /\ rec.payments[y + 1].k = y - d

\* C12: for both sexes, every age a >= 0 (ages above MAXAGE included) and a
\* table of positive lx, npx(a, sex, 0) is 1 and, for n >= 1, npx(a, sex, n)
\* equals npx(a, sex, n - 1) * npx(a + n - 1, sex, 1) in exact arithmetic.
C12_SurvivalMultiplies ==
    (call.op = "npx" /\ call.sex \in Sexes /\ Positive(lx[call.sex])) =>
        /\ result.ok
        /\ (call.nyears = 0) => (result.value = Unit)
        /\ (call.nyears >= 1) =>
              LET shorter == npx(lx, call.age, call.sex, call.nyears - 1)
                  last    == npx(lx, call.age + call.nyears - 1, call.sex, 1)
              IN /\ shorter.ok /\ last.ok
                 /\ result.value = Times(shorter.value, last.value)

\* C12 witness: npx over several years that end above MAXAGE, from an age
\* below it, with a survival probability other than 1.
C12_Witness ==
    /\ call.op = "npx" /\ result.ok
    /\ call.nyears >= 2
    /\ call.age < MAXAGE /\ call.age + call.nyears > MAXAGE
    /\ result.value # Unit

\* The last call was cf_defined_partner under the conditions of C13: life
\* tables positive and non-increasing in age, positive factors, age_insured
\* <= pension_age and every offset age inside the table.
DefinedPartnerInDomain ==
    /\ call.op = "cf_defined_partner"
    /\ call.sex \in Sexes
    /\ \A s \in Sexes : Positive(lx[s]) /\ NonIncreasing(lx[s])
    /\ \A f \in {adjust[call.sex].fnett, adjust[call.sex].fcorr, adjust[call.sex].fOTS} :
          f.m > 0
    /\ call.age <= call.pension_age
    /\ Anchors(adjust, params, call.age, call.sex, call.pension_age) \subseteq 0..MAXAGE

\* C13 (as claimed): under these conditions cf_defined_partner returns a
\* record and every payment fnett * fcorr * fOTS * (ay - axy + f1 - f2) of it
\* is non-negative, at every year and whether or not CX1 equals CX2.
C13_DefinedPartnerNonNegative ==
    DefinedPartnerInDomain =>
        /\ result.ok
        /\ \A n \in 1..Len(result.value.payments) : result.value.payments[n].m >= 0

====
